---- MODULE Spec2Model ----
(***************************************************************************)
(* Vibesh: the interactive shell of vibeshell/vibesh.  One input line is   *)
(* routed by the current mode to the direct, the retrieval (RAG) or the    *)
(* generative (AI) processor; retrieval and generative candidates pass a   *)
(* risk gate before they reach `sh -c`.  The model follows the current     *)
(* version of the program (the first file of src/unnamed/part_002).        *)
(***************************************************************************)
EXTENDS Integers, Sequences, FiniteSets, TLC

\* Number of lines one run reads before the input is closed.
MaxLines == 2

\* Number of lines that are on the standard input when the program starts.
MaxInput == 3

(***************************************************************************)
(* The standard input, which main and the processors' prompts read.        *)
(***************************************************************************)
VARIABLES
    stdin,           \* os.Stdin: its lines, how many were read off it, its kind
    reader           \* main's bufio.Reader: the lines read off stdin, not yet returned

(***************************************************************************)
(* Package strings: Go strings are TLA+ strings, taken apart with SubSeq.  *)
(***************************************************************************)
Char(s, i) == SubSeq(s, i, i)

Upper == "ABCDEFGHIJKLMNOPQRSTUVWXYZ"

Lower == "abcdefghijklmnopqrstuvwxyz"

IsSpace(c) == c \in {" ", "\n", "\t", "\r"}

HasPrefix(s, prefix) ==
    Len(s) >= Len(prefix) /\ SubSeq(s, 1, Len(prefix)) = prefix

HasSuffix(s, suffix) ==
    Len(s) >= Len(suffix) /\ SubSeq(s, Len(s) - Len(suffix) + 1, Len(s)) = suffix

Contains(s, substr) ==
    \E i \in 1..(Len(s) - Len(substr) + 1) : SubSeq(s, i, i + Len(substr) - 1) = substr

UpperChars == {Char(Upper, i) : i \in 1..Len(Upper)}

ToLowerChar(c) ==
    IF c \in UpperChars
    THEN Char(Lower, CHOOSE i \in 1..Len(Upper) : Char(Upper, i) = c)
    ELSE c

RECURSIVE ToLower(_)
ToLower(s) ==
    IF s = "" THEN "" ELSE ToLowerChar(Char(s, 1)) \o ToLower(SubSeq(s, 2, Len(s)))

RECURSIVE TrimLeft(_)
TrimLeft(s) ==
    IF Len(s) > 0 /\ IsSpace(Char(s, 1)) THEN TrimLeft(SubSeq(s, 2, Len(s))) ELSE s

RECURSIVE TrimRight(_)
TrimRight(s) ==
    IF Len(s) > 0 /\ IsSpace(Char(s, Len(s)))
    THEN TrimRight(SubSeq(s, 1, Len(s) - 1))
    ELSE s

TrimSpace(s) == TrimRight(TrimLeft(s))

\* Length of the leading run of non-space characters of s.
RECURSIVE WordLen(_)
WordLen(s) ==
    IF s = "" \/ IsSpace(Char(s, 1)) THEN 0 ELSE 1 + WordLen(SubSeq(s, 2, Len(s)))

RECURSIVE Fields(_)
Fields(s) ==
    LET t == TrimLeft(s)
        n == WordLen(t)
    IN  IF t = "" THEN << >> ELSE <<SubSeq(t, 1, n)>> \o Fields(SubSeq(t, n + 1, Len(t)))

RECURSIVE Join(_, _)
Join(elems, sep) ==
    IF Len(elems) = 0 THEN ""
    ELSE IF Len(elems) = 1 THEN elems[1]
    ELSE elems[1] \o sep \o Join(Tail(elems), sep)

(***************************************************************************)
(* The retrieval knowledge base and its risk heuristic.                    *)
(***************************************************************************)
\* The literal of NewRAGProcessor, in source order: <<intent phrase, template>>.
kb ==
    << <<"list files", "ls -la">>,
       <<"show hidden files", "ls -la | grep '^\\.'">>,
       <<"find file", "find . -name">>,
       <<"find text in files", "grep -r 'text' .">>,
       <<"create directory", "mkdir -p">>,
       <<"remove directory", "rm -rf">>,
       <<"copy file", "cp">>,
       <<"move file", "mv">>,
       <<"change permissions", "chmod">>,
       <<"change owner", "chown">>,
       <<"show disk space", "df -h">>,
       <<"check memory", "free -m || vm_stat">>,
       <<"show running processes", "ps aux">>,
       <<"show system info", "uname -a">>,
       <<"find large files", "find . -type f -size +100M">>,
       <<"check network connections", "netstat -tuln || lsof -i -P -n">>,
       <<"show ip address", "ifconfig || ip addr">>,
       <<"monitor cpu usage", "top">>,
       <<"check system logs", "tail -f /var/log/syslog || tail -f /var/log/system.log">>,
       <<"show mac info", "system_profiler SPHardwareDataType">>,
       <<"list applications", "ls -la /Applications">>,
       <<"show mac version", "sw_vers">>,
       <<"flush dns", "dscacheutil -flushcache; killall -HUP mDNSResponder">>,
       <<"show network info", "networksetup -listallhardwareports">>,
       <<"show battery info", "pmset -g batt">>,
       <<"list ports", "lsof -i -P -n | grep LISTEN">>,
       <<"kill process on port", "lsof -ti tcp:PORT | xargs kill">>,
       <<"check git status", "git status">>,
       <<"git pull", "git pull">>,
       <<"git push", "git push">>,
       <<"list docker containers", "docker ps">>,
       <<"build docker image", "docker build -t NAME .">>,
       <<"run docker container", "docker run -it --rm NAME">>,
       <<"go build", "go build">>,
       <<"go test", "go test ./...">>,
       <<"go run", "go run main.go">>,
       <<"npm install", "npm install">>,
       <<"npm start", "npm start">>,
       <<"view json pretty", "cat FILE | jq">> >>

\* p.knowledgeBase: the Go map built from the literal.
knowledgeBase == [key \in {kb[i][1] : i \in DOMAIN kb} |->
                    kb[CHOOSE i \in DOMAIN kb : kb[i][1] = key][2]]

\* A classifier that asks for a blank after "rm -rf".
getRAGCommandRisk_blank(cmd) ==
    IF HasPrefix(cmd, "rm -rf ")
    THEN [risk |-> 9, doesRead |-> TRUE, doesWrite |-> TRUE]
    ELSE IF HasPrefix(cmd, "ls") \/ HasPrefix(cmd, "find")
    THEN [risk |-> 1, doesRead |-> TRUE, doesWrite |-> FALSE]
    ELSE [risk |-> 3, doesRead |-> TRUE, doesWrite |-> FALSE]

\* getRAGCommandRisk, "High-risk commands": the first if-chain.
HighRisk(cmd, r) ==
    IF HasPrefix(cmd, "rm -rf")
    THEN [r EXCEPT !.risk = 9, !.doesWrite = TRUE]
    ELSE IF HasPrefix(cmd, "chmod") \/ HasPrefix(cmd, "chown")
    THEN [r EXCEPT !.risk = 7, !.doesWrite = TRUE]
    ELSE r

\* getRAGCommandRisk, "Medium-risk commands": the second if-chain.
MediumRisk(cmd, r) ==
    IF HasPrefix(cmd, "git push") \/ HasPrefix(cmd, "git pull")
    THEN [r EXCEPT !.risk = 5, !.doesWrite = TRUE]
    ELSE IF HasPrefix(cmd, "mv") \/ HasPrefix(cmd, "cp")
    THEN [r EXCEPT !.risk = 5, !.doesWrite = TRUE]
    ELSE IF HasPrefix(cmd, "mkdir")
    THEN [r EXCEPT !.risk = 4, !.doesWrite = TRUE]
    ELSE r

\* A read-only rule that tests "git" where the code tests "git status".
LowRisk_git(cmd, r) ==
    IF \/ HasPrefix(cmd, "ls") \/ HasPrefix(cmd, "find")
       \/ HasPrefix(cmd, "grep") \/ HasPrefix(cmd, "df")
       \/ HasPrefix(cmd, "ps") \/ HasPrefix(cmd, "uname")
       \/ HasPrefix(cmd, "git")
    THEN [r EXCEPT !.risk = 1, !.doesWrite = FALSE]
    ELSE r

\* getRAGCommandRisk, "Low-risk commands (read-only)": the last if.
LowRisk(cmd, r) ==
    IF \/ HasPrefix(cmd, "ls") \/ HasPrefix(cmd, "find")
       \/ HasPrefix(cmd, "grep") \/ HasPrefix(cmd, "df")
       \/ HasPrefix(cmd, "ps") \/ HasPrefix(cmd, "uname")
       \/ HasPrefix(cmd, "git status")
    THEN [r EXCEPT !.risk = 1, !.doesWrite = FALSE]
    ELSE r

\* getRAGCommandRisk's "Default values".
DefaultRisk == [risk |-> 3, doesRead |-> TRUE, doesWrite |-> FALSE]

\* A classifier whose medium-risk rules all score 5.
getRAGCommandRisk_flat(cmd) ==
    LET r == LowRisk(cmd, MediumRisk(cmd, HighRisk(cmd, DefaultRisk)))
    IN  IF r.risk = 4 THEN [r EXCEPT !.risk = 5] ELSE r

\* getRAGCommandRisk: three independent if-chains, later ones overwrite.
getRAGCommandRisk(cmd) ==
    LowRisk(cmd, MediumRisk(cmd, HighRisk(cmd, DefaultRisk)))

\* The inner loop of findSimilarCommand: query words contained in the key.
RECURSIVE matchCount(_, _)
matchCount(key, queryWords) ==
    IF Len(queryWords) = 0 THEN 0
    ELSE (IF Contains(ToLower(key), Head(queryWords)) THEN 1 ELSE 0)
         + matchCount(key, Tail(queryWords))

\* matchCount of every key, by position in kb.
RECURSIVE matchCounts(_, _)
matchCounts(i, queryWords) ==
    IF i > Len(kb) THEN << >>
    ELSE <<matchCount(kb[i][1], queryWords)>> \o matchCounts(i + 1, queryWords)

\* The outer loop of findSimilarCommand over the keys kb[order[n]], n = at..Len(order).
RECURSIVE bestMatch(_, _, _, _)
bestMatch(order, at, counts, best) ==
    IF at > Len(order) THEN best
    ELSE bestMatch(order, at + 1, counts,
                   IF counts[order[at]] > best.bestMatchCount
                   THEN [bestMatchKey |-> kb[order[at]][1],
                         bestMatchCount |-> counts[order[at]]]
                   ELSE best)

\* A matcher that takes any key with a word of the query, not the best one.
findSimilarCommand_anyHit(query) ==
    LET counts == matchCounts(1, Fields(ToLower(query)))
        hits   == {i \in DOMAIN kb : counts[i] > 0}
    IN  IF hits = {} THEN {[cmd |-> "", found |-> FALSE]}
        ELSE {[cmd |-> kb[i][2], found |-> TRUE] : i \in hits}

\* findSimilarCommand: the set of (command, found) the call can return.  Go
\* ranges over a map in an unspecified order; the strict `>` keeps the first
\* key of maximal count, so the orders "one key first, then all keys in
\* source order" produce every result any order can produce (the second
\* visit of the first key never wins).
findSimilarCommand(query) ==
    LET queryWords == Fields(ToLower(query))
        counts == matchCounts(1, queryWords)
        order(first) == <<first>> \o [i \in DOMAIN kb |-> i]
        result(b) == IF b.bestMatchCount > 0
                     THEN [cmd |-> knowledgeBase[b.bestMatchKey], found |-> TRUE]
                     ELSE [cmd |-> "", found |-> FALSE]
    IN  { result(bestMatch(order(first), 1, counts,
                           [bestMatchKey |-> "", bestMatchCount |-> 0])) : first \in DOMAIN kb }

(***************************************************************************)
(* The environment: what the user types, what the external model answers   *)
(* and what the shell returns.                                             *)
(***************************************************************************)
\* Lines typed at the interactive prompt, as ReadString('\n') returns them.
RawLines ==
    { "exit\n", "help\n", "history\n", "context\n",
      "mode\n", "mode ai\n", "mode rag\n", "mode ai-yolo\n", "mode rag-yolo\n",
      "mode direct\n", "mode bogus\n", "mode ai rag\n", "modeless\n",
      "\n", "  list files \n", "remove directory\n", "change owner\n",
      "ls /nonexistent\n" }

\* Replies read at a "(y/n)" or "Select mode:" prompt: typed when the prompt
\* shows, or on the standard input already; "" is end-of-input.
ConfirmReplies ==
    { "y\n", " Y \n", "n\n", "yes\n", "\n", "" }
      \cup {stdin.lines[i] : i \in DOMAIN stdin.lines}

\* Lines that are on the standard input before the program reads any:
\* commands and answers typed ahead, or written into a pipe.
InputLines == { "remove directory\n", "y\n", "n\n" }

\* Lines of a script whose confirmations are answered from the standard input.
ScriptCommands == { "remove directory", "list files" }

ModeReplies == { "ai\n", " rag-yolo \n", "direct\n", "bogus\n", "\n" }

\* Lines of a script file or of piped input, as Scanner.Text() returns them.
FileLines ==
    { "#!/usr/bin/env vibesh", "# a comment", "", "  show me system info ",
      "list files", "exit" }

\* The risk scores the external model reports: the ends of the schema's
\* range 0..10, the values around the gate's threshold of 7, and one value
\* on each side of the range (json.Unmarshal does not check it).
RiskScores == {-1, 0, 4, 6, 7, 9, 10, 11}

\* FunctionCall.Arguments: the text the model returned, by its JSON structure.
Document(raw, syntax, keys, cmdIsArray, cmd, score, wr) ==
    [ raw |-> raw, syntax |-> syntax, keys |-> keys, reply |-> "I will do it.",
      cmdIsArray |-> cmdIsArray, cmd |-> cmd, risk_score |-> score,
      does_read |-> TRUE, does_write |-> wr ]

SchemaKeys == {"reply", "cmd", "risk_score", "does_read", "does_write"}

Arguments ==
    { Document("Sorry, I cannot help with that.", FALSE, {}, TRUE, << >>, 0, FALSE),
      Document("{\"cmd\": \"rm -rf build\", \"risk_score\": 9}", TRUE,
               {"cmd", "risk_score"}, FALSE, <<"rm -rf build">>, 9, FALSE),
      Document("{}", TRUE, {}, TRUE, << >>, 0, FALSE) }
    \cup { Document("{...}", TRUE, SchemaKeys, TRUE, <<"rm", "-rf", "build dir">>,
                     score, score >= 4) : score \in RiskScores }
    \cup { Document("{...}", TRUE, SchemaKeys, TRUE, << >>, score, FALSE) :
             score \in {0, 9} }

\* What CreateChatCompletion returns: an error, or a response with its choices.
NoFunctionCall == [nil |-> TRUE, Arguments |-> Document("", FALSE, {}, TRUE, << >>, 0, FALSE)]

ChatCompletion(err, choices) == [err |-> err, Choices |-> choices]

ChatCompletions ==
    { ChatCompletion("Post \"https://api.openai.com/v1/chat/completions\": EOF", << >>),
      ChatCompletion("context deadline exceeded", << >>),
      ChatCompletion("nil", << >>),
      ChatCompletion("nil", << [FunctionCall |-> NoFunctionCall] >>) }
    \cup { ChatCompletion("nil", << [FunctionCall |-> [nil |-> FALSE, Arguments |-> a]] >>) :
             a \in Arguments }

\* What cmd.CombinedOutput() returns: the captured output and the error.
ExecResults ==
    { [output |-> "out\n", err |-> "nil"],
      [output |-> "partial out\n", err |-> "exit status 1"] }

(***************************************************************************)
(* The processors.  Process(command, history) is the set of outcomes the   *)
(* call can have, one for each answer of the environment.  An outcome is   *)
(* the returned (output, err), the candidate the call produced, its        *)
(* observable steps in order, and whether it panicked.  A strings.Builder  *)
(* is the sequence of the chunks written to it (colour codes left out).    *)
(***************************************************************************)
NoError == [nil |-> TRUE, msg |-> << >>]

Error(msg) == [nil |-> FALSE, msg |-> msg]

\* The candidate a call produced: the command array (a retrieval template is
\* one raw string), the string handed to sh -c, and the risk fields.
NoCandidate ==
    [ some |-> FALSE, source |-> "", Cmd |-> << >>, command |-> "", riskScore |-> 0,
      doesRead |-> FALSE, doesWrite |-> FALSE ]

Candidate(source, Cmd, command, riskScore, doesRead, doesWrite) ==
    [ some |-> TRUE, source |-> source, Cmd |-> Cmd, command |-> command,
      riskScore |-> riskScore, doesRead |-> doesRead, doesWrite |-> doesWrite ]

Event(type, data) == [type |-> type, data |-> data]

\* No call of the external model was made.
NotCalled == [err |-> "not called", Choices |-> << >>]

Outcome(output, err, cand, events) ==
    [ output |-> output, err |-> err, cand |-> cand, events |-> events,
      resp |-> NotCalled, panic |-> FALSE ]

\* cmd.CombinedOutput() on sh -c command returned r.
Executed(command, r) ==
    <<Event("exec", <<"sh", "-c", command>>), Event("CombinedOutput", <<r.output, r.err>>)>>

\* A Go run-time panic: the call does not return.
Panic(reason, events) ==
    [ output |-> << >>, err |-> Error(<<"panic: ", reason>>), cand |-> NoCandidate,
      events |-> events, resp |-> NotCalled, panic |-> TRUE ]

\* openai.NewClient returns a pointer to a new Client whatever the token is.
NewClient(apiKey) == [nil |-> FALSE, authToken |-> apiKey]

NewAIProcessor(apiKey) == [client |-> NewClient(apiKey), yolo |-> FALSE]

NewAIYoloProcessor(apiKey) == [client |-> NewClient(apiKey), yolo |-> TRUE]

NewRAGProcessor(apiKey) == [client |-> NewClient(apiKey), yolo |-> FALSE]

NewRAGYoloProcessor(apiKey) == [NewRAGProcessor(apiKey) EXCEPT !.yolo = TRUE]

\* DirectShellProcessor.Process: sh -c on the line; the shell's error is returned.
DirectShellProcess(command, history) ==
    { Outcome(<<r.output>>,
              IF r.err = "nil" THEN NoError ELSE Error(<<r.err>>),
              NoCandidate, Executed(command, r)) : r \in ExecResults }

\* A decoder that replaces the reported risk by the classifier's risk of the
\* command text.
Unmarshal_reclassify(doc) ==
    LET cmd  == IF "cmd" \in doc.keys /\ doc.cmdIsArray THEN doc.cmd ELSE << >>
        risk == getRAGCommandRisk(Join(cmd, " "))
    IN  [ err |-> IF doc.syntax /\ doc.cmdIsArray THEN "nil" ELSE "invalid",
          v |-> [ Reply |-> doc.reply, Cmd |-> cmd, RiskScore |-> risk.risk,
                  DoesRead |-> risk.doesRead, DoesWrite |-> risk.doesWrite ] ]

\* A decoder that reports no error: every document yields a response.
Unmarshal_lenient(doc) ==
    [ err |-> "nil",
      v |-> [ Reply |-> doc.reply, Cmd |-> IF doc.cmdIsArray THEN doc.cmd ELSE << >>,
              RiskScore |-> doc.risk_score, DoesRead |-> doc.does_read,
              DoesWrite |-> doc.does_write ] ]

\* json.Unmarshal into AIResponse: a field the document lacks keeps its zero value.
Unmarshal(doc) ==
    LET has(k) == k \in doc.keys
        v == [ Reply     |-> IF has("reply") THEN doc.reply ELSE "",
               Cmd       |-> IF has("cmd") /\ doc.cmdIsArray THEN doc.cmd ELSE << >>,
               RiskScore |-> IF has("risk_score") THEN doc.risk_score ELSE 0,
               DoesRead  |-> IF has("does_read") THEN doc.does_read ELSE FALSE,
               DoesWrite |-> IF has("does_write") THEN doc.does_write ELSE FALSE ]
    IN  IF ~doc.syntax
        THEN [err |-> "invalid character 'S' looking for beginning of value", v |-> v]
        ELSE IF has("cmd") /\ ~doc.cmdIsArray
        THEN [err |-> "json: cannot unmarshal string into Go struct field AIResponse.cmd of type []string",
              v |-> v]
        ELSE [err |-> "nil", v |-> v]

\* The threshold test written with > instead of >=.
AIshouldConfirm_strict(riskScore, yolo) == riskScore > 7 /\ ~yolo

\* shouldConfirm of AIProcessor.Process.
AIshouldConfirm(riskScore, yolo) == riskScore >= 7 /\ ~yolo

\* A retrieval gate that lets a score of 7 through.
RAGshouldConfirm_strict(riskScore, yolo) == riskScore > 7 /\ ~yolo

\* The gate without the yolo flag.
RAGshouldConfirm_anyMode(riskScore, yolo) == riskScore >= 7

\* shouldConfirm of RAGProcessor.Process.
RAGshouldConfirm(riskScore, yolo) == riskScore >= 7 /\ ~yolo

\* A reply test that accepts every reply that starts with y.
Confirmed_prefix(reply) == HasPrefix(ToLower(TrimSpace(reply)), "y")

\* The strings.ToLower(confirm) != "y" test on the trimmed reply.
Confirmed(reply) == ToLower(TrimSpace(reply)) = "y"

formatTags(riskScore, doesRead, doesWrite) ==
    << "Risk: " \o ToString(riskScore) \o "/10", " | ",
       "Read: " \o ToString(doesRead), " | ", "Write: " \o ToString(doesWrite), "\n" >>

\* An executor that runs the approved command under sudo.
AIExecute_sudo(p, cand, result, events) ==
    { Outcome(result
                \o <<IF p.yolo THEN "Running: " ELSE "Command: ", cand.command, "\n\n">>
                \o <<r.output>>
                \o (IF r.err # "nil" THEN <<"\nError: ", r.err>> ELSE << >>),
              NoError, cand,
              events \o Executed("sudo " \o cand.command, r)) : r \in ExecResults }

\* AIProcessor.Process from "Execute the command" on.
AIExecute(p, cand, result, events) ==
    { Outcome(result
                \o <<IF p.yolo THEN "Running: " ELSE "Command: ", cand.command, "\n\n">>
                \o <<r.output>>
                \o (IF r.err # "nil" THEN <<"\nError: ", r.err>> ELSE << >>),
              NoError, cand,
              events \o Executed(cand.command, r)) : r \in ExecResults }

\* AIProcessor.Process from the parsed response on: the gate, then the shell.
AIGate(p, aiResponse, events) ==
    LET shellCmdString == Join(aiResponse.Cmd, " ")
        cand    == Candidate("ai", aiResponse.Cmd, shellCmdString, aiResponse.RiskScore,
                             aiResponse.DoesRead, aiResponse.DoesWrite)
        prefix  == IF p.yolo THEN "[AI YOLO] " ELSE "[AI] "
        result  == <<prefix, aiResponse.Reply, "\n">>
                     \o formatTags(aiResponse.RiskScore, aiResponse.DoesRead,
                                   aiResponse.DoesWrite)
        prompt  == result \o << "WARNING: This command has a high risk score (",
                                ToString(aiResponse.RiskScore), "/10).\n",
                                "Command: ", shellCmdString, "\n\n",
                                "Do you want to execute this command? (y/n): " >>
    IN  IF AIshouldConfirm(aiResponse.RiskScore, p.yolo)
        THEN UNION { LET asked == events \o <<Event("Print", prompt),
                                              Event("ReadString", <<confirm>>)>>
                     IN  IF ~Confirmed(confirm)
                         THEN {Outcome(<<"Command execution cancelled by user.">>,
                                       NoError, cand, asked)}
                         ELSE AIExecute(p, cand, <<prefix>>, asked)
                     : confirm \in ConfirmReplies }
        ELSE AIExecute(p, cand, result, events)

\* A generative processor that calls the service a second time when the
\* first call fails.
AIProcess_retry(p, command, history) ==
    IF p.client.nil
    THEN {Outcome(<<"[AI] API key not set. Please set OPENAI_API_KEY environment variable.">>,
                  NoError, NoCandidate, << >>)}
    ELSE
    LET messages == <<"system: You are ShellAI", "system: Directory context">>
                      \o history \o <<command>>
        events   == <<Event("CreateChatCompletion", messages)>>
        after(resp) ==
            IF resp.err # "nil"
            THEN {Outcome(<<"">>, Error(<<"OpenAI API error: ", resp.err>>),
                          NoCandidate, events \o events)}
            ELSE IF Len(resp.Choices) = 0
            THEN {Panic("runtime error: index out of range [0] with length 0", events)}
            ELSE LET functionCallResponse == resp.Choices[1].FunctionCall
                 IN  IF functionCallResponse.nil
                     THEN {Panic("runtime error: invalid memory address or nil pointer dereference",
                                 events)}
                     ELSE LET parsed == Unmarshal(functionCallResponse.Arguments)
                          IN  IF parsed.err # "nil"
                              THEN {Outcome(<<"">>,
                                            Error(<<"Failed to parse AI response as JSON: ",
                                                    parsed.err, "\nRaw response: ",
                                                    functionCallResponse.Arguments.raw>>),
                                            NoCandidate, events)}
                              ELSE AIGate(p, parsed.v, events)
    IN  UNION { {[o EXCEPT !.resp = resp] : o \in after(resp)} : resp \in ChatCompletions }

\* A generative processor that sends the current input before the history.
AIProcess_inputFirst(p, command, history) ==
    IF p.client.nil
    THEN {Outcome(<<"[AI] API key not set. Please set OPENAI_API_KEY environment variable.">>,
                  NoError, NoCandidate, << >>)}
    ELSE
    LET messages == <<"system: You are ShellAI", "system: Directory context">>
                      \o <<command>> \o history
        events   == <<Event("CreateChatCompletion", messages)>>
        after(resp) ==
            IF resp.err # "nil"
            THEN {Outcome(<<"">>, Error(<<"OpenAI API error: ", resp.err>>),
                          NoCandidate, events)}
            ELSE IF Len(resp.Choices) = 0
            THEN {Panic("runtime error: index out of range [0] with length 0", events)}
            ELSE LET functionCallResponse == resp.Choices[1].FunctionCall
                 IN  IF functionCallResponse.nil
                     THEN {Panic("runtime error: invalid memory address or nil pointer dereference",
                                 events)}
                     ELSE LET parsed == Unmarshal(functionCallResponse.Arguments)
                          IN  IF parsed.err # "nil"
                              THEN {Outcome(<<"">>,
                                            Error(<<"Failed to parse AI response as JSON: ",
                                                    parsed.err, "\nRaw response: ",
                                                    functionCallResponse.Arguments.raw>>),
                                            NoCandidate, events)}
                              ELSE AIGate(p, parsed.v, events)
    IN  UNION { {[o EXCEPT !.resp = resp] : o \in after(resp)} : resp \in ChatCompletions }

\* AIProcessor.Process.
AIProcess(p, command, history) ==
    IF p.client.nil
    THEN {Outcome(<<"[AI] API key not set. Please set OPENAI_API_KEY environment variable.">>,
                  NoError, NoCandidate, << >>)}
    ELSE
    LET messages == <<"system: You are ShellAI", "system: Directory context">>
                      \o history \o <<command>>
        events   == <<Event("CreateChatCompletion", messages)>>
        after(resp) ==
            IF resp.err # "nil"
            THEN {Outcome(<<"">>, Error(<<"OpenAI API error: ", resp.err>>),
                          NoCandidate, events)}
            ELSE IF Len(resp.Choices) = 0
            THEN {Panic("runtime error: index out of range [0] with length 0", events)}
            ELSE LET functionCallResponse == resp.Choices[1].FunctionCall
                 IN  IF functionCallResponse.nil
                     THEN {Panic("runtime error: invalid memory address or nil pointer dereference",
                                 events)}
                     ELSE LET parsed == Unmarshal(functionCallResponse.Arguments)
                          IN  IF parsed.err # "nil"
                              THEN {Outcome(<<"">>,
                                            Error(<<"Failed to parse AI response as JSON: ",
                                                    parsed.err, "\nRaw response: ",
                                                    functionCallResponse.Arguments.raw>>),
                                            NoCandidate, events)}
                              ELSE AIGate(p, parsed.v, events)
    IN  UNION { {[o EXCEPT !.resp = resp] : o \in after(resp)} : resp \in ChatCompletions }

\* A retrieval processor that hands the last word of the line to the template.
RAGMatched_withArgument(p, command, shellCmd) ==
    LET risk    == getRAGCommandRisk(shellCmd)
        cand    == Candidate("rag", <<shellCmd>>, shellCmd, risk.risk, risk.doesRead,
                             risk.doesWrite)
        prefix  == IF p.yolo THEN "[RAG YOLO] " ELSE "[RAG] "
        matched == <<prefix, "Matched '", command, "' to command: ", shellCmd, "\n">>
        result  == matched \o formatTags(risk.risk, risk.doesRead, risk.doesWrite)
        prompt  == result \o << "WARNING: This command has a high risk score (",
                                ToString(risk.risk), "/10).\n",
                                "Do you want to execute this command? (y/n): " >>
        events  == <<Event("getRAGCommandRisk", <<shellCmd>>)>>
        execute(res, evs) ==
            { Outcome(res \o <<"\nOutput:\n", r.output>>
                          \o (IF r.err # "nil" THEN <<"\nError: ", r.err>> ELSE << >>),
                      NoError, cand,
                      evs \o Executed(shellCmd \o " "
                                         \o Fields(command)[Len(Fields(command))], r))
              : r \in ExecResults }
    IN  IF RAGshouldConfirm(risk.risk, p.yolo)
        THEN UNION { LET asked == events \o <<Event("Print", prompt),
                                              Event("ReadString", <<confirm>>)>>
                     IN  IF ~Confirmed(confirm)
                         THEN {Outcome(<<"Command execution cancelled by user.">>,
                                       NoError, cand, asked)}
                         ELSE execute(matched, asked)
                     : confirm \in ConfirmReplies }
        ELSE execute(result, events)

\* RAGProcessor.Process when findSimilarCommand found shellCmd.
RAGMatched(p, command, shellCmd) ==
    LET risk    == getRAGCommandRisk(shellCmd)
        cand    == Candidate("rag", <<shellCmd>>, shellCmd, risk.risk, risk.doesRead,
                             risk.doesWrite)
        prefix  == IF p.yolo THEN "[RAG YOLO] " ELSE "[RAG] "
        matched == <<prefix, "Matched '", command, "' to command: ", shellCmd, "\n">>
        result  == matched \o formatTags(risk.risk, risk.doesRead, risk.doesWrite)
        prompt  == result \o << "WARNING: This command has a high risk score (",
                                ToString(risk.risk), "/10).\n",
                                "Do you want to execute this command? (y/n): " >>
        events  == <<Event("getRAGCommandRisk", <<shellCmd>>)>>
        execute(res, evs) ==
            { Outcome(res \o <<"\nOutput:\n", r.output>>
                          \o (IF r.err # "nil" THEN <<"\nError: ", r.err>> ELSE << >>),
                      NoError, cand,
                      evs \o Executed(shellCmd, r)) : r \in ExecResults }
    IN  IF RAGshouldConfirm(risk.risk, p.yolo)
        THEN UNION { LET asked == events \o <<Event("Print", prompt),
                                              Event("ReadString", <<confirm>>)>>
                     IN  IF ~Confirmed(confirm)
                         THEN {Outcome(<<"Command execution cancelled by user.">>,
                                       NoError, cand, asked)}
                         ELSE execute(matched, asked)
                     : confirm \in ConfirmReplies }
        ELSE execute(result, events)

\* findSimilarCommand on the lines the model's user can submit, computed once.
Submitted == {TrimSpace(l) : l \in RawLines \cup FileLines \cup InputLines} \cup FileLines

similar == { <<q, findSimilarCommand(q)>> : q \in Submitted }

\* A fallback that does not pass the yolo flag on to the generative processor.
RAGProcess_gatedFallback(p, command, history) ==
    UNION { IF m.found
            THEN RAGMatched(p, command, m.cmd)
            ELSE IF ~p.client.nil
            THEN AIProcess([client |-> p.client, yolo |-> FALSE], command, history)
            ELSE {Outcome(<<"[RAG] No matching command found and AI fallback not available.">>,
                          NoError, NoCandidate, << >>)}
            : m \in (CHOOSE e \in similar : e[1] = command)[2] }

\* A retrieval processor that never falls back to the generative one.
RAGProcess_noFallback(p, command, history) ==
    UNION { IF m.found
            THEN RAGMatched(p, command, m.cmd)
            ELSE {Outcome(<<"[RAG] No matching command found and AI fallback not available.">>,
                          NoError, NoCandidate, << >>)}
            : m \in (CHOOSE e \in similar : e[1] = command)[2] }

\* RAGProcessor.Process.
RAGProcess(p, command, history) ==
    UNION { IF m.found
            THEN RAGMatched(p, command, m.cmd)
            ELSE IF ~p.client.nil
            THEN AIProcess([client |-> p.client, yolo |-> p.yolo], command, history)
            ELSE {Outcome(<<"[RAG] No matching command found and AI fallback not available.">>,
                          NoError, NoCandidate, << >>)}
            : m \in (CHOOSE e \in similar : e[1] = command)[2] }

(***************************************************************************)
(* main and processScriptFile.                                             *)
(***************************************************************************)
VARIABLES
    frontend,        \* "script" (os.Args[1] given), "piped" or "interactive"
    apiKey,          \* os.Getenv("OPENAI_API_KEY")
    currentMode,     \* main's currentMode
    commandHistory,  \* main's commandHistory
    history,         \* processScriptFile's history
    scanned,         \* how many lines the bufio.Scanner has returned
    pc,              \* "first" and "loop" (script), "running", "exited", "crashed"
    last             \* what handling the latest line did

vars == <<frontend, apiKey, currentMode, commandHistory, history, scanned, pc, last,
          stdin, reader>>

\* The standard input when each read is drawn from the environment instead.
NoStdin == [lines |-> << >>, pos |-> 0, tty |-> TRUE]

Modes == {"direct", "ai", "rag", "ai-yolo", "rag-yolo"}

\* A dispatch that ignores the mode: every line goes to the direct processor.
Process_alwaysDirect(mode, command, hist) == DirectShellProcess(command, hist)

\* A processors map whose "direct" entry is the retrieval processor.
Process_directGated(mode, command, hist) ==
    CASE mode \in {"direct", "rag"} -> RAGProcess(NewRAGProcessor(apiKey), command, hist)
      [] mode = "ai"       -> AIProcess(NewAIProcessor(apiKey), command, hist)
      [] mode = "ai-yolo"  -> AIProcess(NewAIYoloProcessor(apiKey), command, hist)
      [] mode = "rag-yolo" -> RAGProcess(NewRAGYoloProcessor(apiKey), command, hist)

\* processors[mode].Process(command, hist), with the processors main constructs.
Process(mode, command, hist) ==
    CASE mode = "direct"   -> DirectShellProcess(command, hist)
      [] mode = "ai"       -> AIProcess(NewAIProcessor(apiKey), command, hist)
      [] mode = "rag"      -> RAGProcess(NewRAGProcessor(apiKey), command, hist)
      [] mode = "ai-yolo"  -> AIProcess(NewAIYoloProcessor(apiKey), command, hist)
      [] mode = "rag-yolo" -> RAGProcess(NewRAGYoloProcessor(apiKey), command, hist)

\* The record of one handled line: which branch took it, the mode and history
\* it was dispatched with, the processor's outcome, and every observable step
\* (the processor's, then what the caller printed).
Handled(step, input, mode, hist, out, printed) ==
    [ step |-> step, input |-> input, mode |-> mode, history |-> hist,
      output |-> out.output, err |-> out.err, cand |-> out.cand, resp |-> out.resp,
      panic |-> out.panic, events |-> out.events \o printed ]

Nothing == Outcome(<< >>, NoError, NoCandidate, << >>)

\* A caller that prints the error on the standard output.
Report_stdout(out) ==
    IF out.panic THEN <<Event("Stderr", out.err.msg)>>
    ELSE IF ~out.err.nil
    THEN <<Event("Println", <<"Error executing command: ">> \o out.err.msg)>>
    ELSE <<Event("Println", out.output)>>

\* What the caller of Process prints: the error on stderr or else the output.
Report(out) ==
    IF out.panic THEN <<Event("Stderr", out.err.msg)>>
    ELSE IF ~out.err.nil
    THEN <<Event("Stderr", <<"Error executing command: ">> \o out.err.msg)>>
    ELSE <<Event("Println", out.output)>>

\* What scanner.Scan() and scanner.Text() can return next: the file or the
\* pipe holds at most MaxLines lines; "eof" is Scan() returning false.
Scans == {[eof |-> TRUE, text |-> ""]}
           \cup (IF scanned < MaxLines
                 THEN {[eof |-> FALSE, text |-> l] : l \in FileLines}
                 ELSE {})

Init ==
    /\ stdin = NoStdin
    /\ reader = << >>
    /\ frontend \in {"script", "piped", "interactive"}
    /\ apiKey \in {"", "sk-test"}
    /\ currentMode = "direct"
    /\ commandHistory = << >>
    /\ history = << >>
    /\ scanned = 0
    /\ pc = IF frontend = "script" THEN "first" ELSE "running"
    /\ last = Handled("start", "", "direct", << >>, Nothing, << >>)

\* processScriptFile: the first Scan; a first line that is no shebang is
\* processed with a nil history and is not added to history.
ScriptFirstLine ==
    /\ frontend = "script" /\ pc = "first"
    /\ \E scan \in Scans :
         /\ scanned' = IF scan.eof THEN scanned ELSE scanned + 1
         /\ IF ~scan.eof /\ ~HasPrefix(scan.text, "#!")
            THEN \E out \in Process("ai", scan.text, << >>) :
                   /\ last' = Handled("dispatch", scan.text, "ai", << >>, out, Report(out))
                   /\ pc' = IF out.panic THEN "crashed" ELSE "loop"
            ELSE /\ last' = Handled("skip", scan.text, "ai", << >>, Nothing, << >>)
                 /\ pc' = "loop"
    /\ UNCHANGED <<frontend, apiKey, currentMode, commandHistory, history, stdin, reader>>

\* processScriptFile: one turn of "for scanner.Scan()".
ScriptLine ==
    /\ frontend = "script" /\ pc = "loop"
    /\ \E scan \in Scans :
         /\ ~scan.eof
         /\ scanned' = scanned + 1
         /\ LET line == TrimSpace(scan.text)
            IN  IF line = "" \/ HasPrefix(line, "#")
                THEN /\ last' = Handled("skip", line, "ai", << >>, Nothing, << >>)
                     /\ UNCHANGED <<history, pc>>
                ELSE /\ history' = Append(history, line)
                     /\ \E out \in Process("ai", line, SubSeq(history', 1, Len(history') - 1)) :
                          /\ last' = Handled("dispatch", line, "ai",
                                             SubSeq(history', 1, Len(history') - 1),
                                             out, Report(out))
                          /\ pc' = IF out.panic THEN "crashed" ELSE "loop"
    /\ UNCHANGED <<frontend, apiKey, currentMode, commandHistory, stdin, reader>>

\* processScriptFile returns nil at the end of the file and main exits.
ScriptEnd ==
    /\ frontend = "script" /\ pc = "loop"
    /\ pc' = "exited"
    /\ last' = Handled("eof", "", "ai", << >>, Nothing, << >>)
    /\ UNCHANGED <<frontend, apiKey, currentMode, commandHistory, history, scanned, stdin, reader>>

\* main, piped input: one turn of "for scanner.Scan()".
PipedLine ==
    /\ frontend = "piped" /\ pc = "running"
    /\ \E scan \in Scans :
         /\ ~scan.eof
         /\ scanned' = scanned + 1
         /\ LET command == scan.text
            IN  \E out \in Process(currentMode, command, commandHistory) :
                  /\ last' = Handled("dispatch", command, currentMode, commandHistory,
                                     out, Report(out))
                  /\ pc' = IF out.panic THEN "crashed" ELSE "running"
                  /\ commandHistory' = IF out.panic THEN commandHistory
                                       ELSE Append(commandHistory, command)
    /\ UNCHANGED <<frontend, apiKey, currentMode, history, stdin, reader>>

\* main, piped input: os.Exit(0) after the last line.
PipedEnd ==
    /\ frontend = "piped" /\ pc = "running"
    /\ pc' = "exited"
    /\ last' = Handled("eof", "", currentMode, << >>, Nothing, << >>)
    /\ UNCHANGED <<frontend, apiKey, currentMode, commandHistory, history, scanned, stdin, reader>>

\* A loop that no break leaves.
Interactive_noBreak == frontend = "interactive"

\* The interactive loop is running: no break was taken and no panic raised.
Interactive == frontend = "interactive" /\ pc = "running"

\* reader.ReadString('\n') at the prompt returns io.EOF: "Goodbye!" and break.
ReadEOF ==
    /\ Interactive
    /\ pc' = "exited"
    /\ last' = Handled("eof", "", currentMode, << >>, Nothing,
                       <<Event("Println", <<"\nGoodbye!">>)>>)
    /\ UNCHANGED <<frontend, apiKey, currentMode, commandHistory, history, scanned, stdin, reader>>

\* reader.ReadString('\n') returns another error: it is reported, next turn.
ReadError ==
    /\ Interactive
    /\ last' = Handled("readerr", "", currentMode, << >>, Nothing,
                       <<Event("Stderr", <<"Error reading input:", "read /dev/stdin: input/output error">>)>>)
    /\ UNCHANGED <<frontend, apiKey, currentMode, commandHistory, history, scanned, pc, stdin, reader>>

\* The lines the prompt can still return: the input closes after MaxLines lines.
CanRead == IF Len(commandHistory) < MaxLines THEN RawLines ELSE {}

\* A line that is empty once trimmed: next turn, nothing recorded.
EmptyLine ==
    /\ Interactive
    /\ \E raw \in CanRead :
         /\ TrimSpace(raw) = ""
         /\ last' = Handled("empty", "", currentMode, << >>, Nothing, << >>)
    /\ UNCHANGED <<frontend, apiKey, currentMode, commandHistory, history, scanned, pc, stdin, reader>>

\* A prompt that records only the lines it hands to a processor.
Line_commandsOnly(input) ==
    /\ Interactive
    /\ \E raw \in CanRead : input = TrimSpace(raw)
    /\ input # ""
    /\ commandHistory' = IF input \in {"exit", "help", "history", "context"}
                             \/ HasPrefix(input, "mode")
                          THEN commandHistory
                          ELSE Append(commandHistory, input)
    /\ UNCHANGED <<frontend, apiKey, history, scanned, stdin, reader>>

\* The non-empty trimmed line read at the prompt, appended to commandHistory.
Line(input) ==
    /\ Interactive
    /\ \E raw \in CanRead : input = TrimSpace(raw)
    /\ input # ""
    /\ commandHistory' = Append(commandHistory, input)
    /\ UNCHANGED <<frontend, apiKey, history, scanned, stdin, reader>>

ExitCmd ==
    \E input \in Submitted :
      /\ Line(input)
      /\ input = "exit"
      /\ pc' = "exited"
      /\ last' = Handled("exit", input, currentMode, << >>, Nothing,
                         <<Event("Println", <<"Goodbye!">>)>>)
      /\ UNCHANGED currentMode

HelpCmd ==
    \E input \in Submitted :
      /\ Line(input)
      /\ input = "help"
      /\ last' = Handled("help", input, currentMode, << >>, Nothing,
                         <<Event("Println", <<"Vibesh Help:">>)>>)
      /\ UNCHANGED <<currentMode, pc>>

\* What the "Select mode: " prompt reads.
ModeReads == { [data |-> r, err |-> "nil"] : r \in ModeReplies }
               \cup { [data |-> "", err |-> "EOF"], [data |-> "ai", err |-> "EOF"] }

\* A switch that falls back to "direct" on a name processors does not have.
Switch_reset(modeInput) ==
    IF modeInput \in Modes
    THEN [ mode |-> modeInput,
           printed |-> <<Event("Println", <<"Mode switched to: ", modeInput>>)>> ]
    ELSE [ mode |-> "direct",
           printed |-> <<Event("Println", <<"Invalid mode: ", modeInput>>)>> ]

\* A switch that does not look the name up in processors.
Switch_unchecked(modeInput) ==
    [ mode |-> modeInput,
      printed |-> <<Event("Println", <<"Mode switched to: ", modeInput>>)>> ]

\* The switch both forms of the mode command make: processors[modeInput] exists.
Switch(modeInput) ==
    IF modeInput \in Modes
    THEN [ mode |-> modeInput,
           printed |-> (IF HasSuffix(modeInput, "-yolo")
                        THEN <<Event("Println", <<"CAUTION: YOLO MODE EXECUTES COMMANDS WITHOUT CONFIRMATION">>)>>
                        ELSE << >>)
                       \o <<Event("Println", <<"Mode switched to: ", modeInput>>)>> ]
    ELSE [ mode |-> currentMode,
           printed |-> <<Event("Println", <<"Invalid mode: ", modeInput>>)>> ]

\* The "mode" built-in: any line that starts with "mode".
ModeCmd ==
    \E input \in Submitted :
      /\ Line(input)
      /\ input # "exit" /\ input # "help"
      /\ HasPrefix(input, "mode")
      /\ LET parts == Fields(input)
         IN  IF Len(parts) = 1
             THEN \E read \in ModeReads :
                    LET asked == <<Event("Println", <<"Current mode: ", currentMode>>),
                                   Event("Print", <<"Select mode: ">>),
                                   Event("ReadString", <<read.data>>)>>
                    IN  IF read.err # "nil"
                        THEN /\ last' = Handled("mode", input, currentMode, << >>, Nothing,
                                         asked \o <<Event("Stderr", <<"Error reading mode:", read.err>>)>>)
                             /\ UNCHANGED currentMode
                        ELSE LET sw == Switch(TrimSpace(read.data))
                             IN  /\ currentMode' = sw.mode
                                 /\ last' = Handled("mode", input, currentMode, << >>, Nothing,
                                                    asked \o sw.printed)
             ELSE IF Len(parts) = 2
             THEN LET sw == Switch(parts[2])
                  IN  /\ currentMode' = sw.mode
                      /\ last' = Handled("mode", input, currentMode, << >>, Nothing, sw.printed)
             ELSE /\ last' = Handled("mode", input, currentMode, << >>, Nothing,
                                     <<Event("Println", <<"Usage: mode [mode_name]">>)>>)
                  /\ UNCHANGED currentMode
      /\ UNCHANGED pc

\* The chain of built-in tests a line has passed when it reaches "history".
NotModeCmd(input) == input # "exit" /\ input # "help" /\ ~HasPrefix(input, "mode")

HistoryCmd ==
    \E input \in Submitted :
      /\ Line(input)
      /\ NotModeCmd(input)
      /\ input = "history"
      /\ last' = Handled("history", input, currentMode, << >>, Nothing,
                         <<Event("Println", <<"Command history:">> \o commandHistory)>>)
      /\ UNCHANGED <<currentMode, pc>>

ContextCmd ==
    \E input \in Submitted :
      /\ Line(input)
      /\ NotModeCmd(input) /\ input # "history"
      /\ input = "context"
      /\ last' = Handled("context", input, currentMode, << >>, Nothing,
                         <<Event("Println", <<"Current directory: ">>)>>)
      /\ UNCHANGED <<currentMode, pc>>

\* Any other line goes to the processor of the current mode.
Dispatch ==
    \E input \in Submitted :
      /\ Line(input)
      /\ NotModeCmd(input) /\ input # "history" /\ input # "context"
      /\ \E out \in Process(currentMode, input, commandHistory) :
           /\ last' = Handled("dispatch", input, currentMode, commandHistory, out, Report(out))
           /\ pc' = IF out.panic THEN "crashed" ELSE "running"
      /\ UNCHANGED currentMode

Next ==
    \/ ScriptFirstLine
    \/ ScriptLine
    \/ ScriptEnd
    \/ PipedLine
    \/ PipedEnd
    \/ ReadEOF
    \/ ReadError
    \/ EmptyLine
    \/ ExitCmd
    \/ HelpCmd
    \/ ModeCmd
    \/ HistoryCmd
    \/ ContextCmd
    \/ Dispatch

Spec == Init /\ [][Next]_vars

(***************************************************************************)
(* findSimilarCommand on its own: one call on one query.                   *)
(***************************************************************************)
\* The queries: every intent phrase of the knowledge base as it is written,
\* and lines that match one key, several keys, or none.
Queries ==
    {kb[i][1] : i \in DOMAIN kb}
      \cup { "", "zzz", "ls /nonexistent", "FIND FILE", "Show Me System Info",
             "list", "files", "docker", "show", "git", "e", "port port",
             "remove the build directory", "install npm packages",
             "what is my ip address", "file file zzz" }

MatchInit ==
    /\ stdin = NoStdin
    /\ reader = << >>
    /\ frontend = "interactive"
    /\ apiKey = ""
    /\ currentMode = "rag"
    /\ commandHistory = << >>
    /\ history = << >>
    /\ scanned = 0
    /\ pc = "query"
    /\ last \in {[step |-> "query", input |-> q, cmd |-> "", found |-> FALSE] : q \in Queries}

\* shellCmd, found := p.findSimilarCommand(command)
FindSimilar ==
    /\ pc = "query"
    /\ \E m \in findSimilarCommand(last.input) :
         last' = [step |-> "match", input |-> last.input, cmd |-> m.cmd, found |-> m.found]
    /\ pc' = "matched"
    /\ UNCHANGED <<frontend, apiKey, currentMode, commandHistory, history, scanned, stdin, reader>>

MatchNext == FindSimilar

SpecMatch == MatchInit /\ [][MatchNext]_vars

(***************************************************************************)
(* RAGProcessor.Process on its own: one line in a retrieval mode.          *)
(***************************************************************************)
\* The lines: the queries of the matcher, and intent phrases followed by
\* the argument their template has a placeholder for.
Requests ==
    Queries \cup { "kill process on port 8080", "build docker image myapp",
                   "run docker container myapp", "view json pretty data.json",
                   "remove directory /tmp/scratch", "change owner alice notes.txt" }

\* The record of a line in a retrieval mode with what the matcher returned.
Retrieved(step, input, m, out) ==
    Handled(step, input, currentMode, << >>, out, Report(out))
      @@ [cmd |-> m.cmd, found |-> m.found]

RetrieveInit ==
    /\ stdin = NoStdin
    /\ reader = << >>
    /\ frontend = "interactive"
    /\ apiKey = "sk-test"
    /\ currentMode \in {"rag", "rag-yolo"}
    /\ commandHistory = << >>
    /\ history = << >>
    /\ scanned = 0
    /\ pc = "query"
    /\ last \in {Retrieved("query", q, [cmd |-> "", found |-> FALSE], Nothing) : q \in Requests}

\* processors[currentMode].Process(input, nil) of a retrieval processor.
Retrieve ==
    /\ pc = "query"
    /\ LET p == IF currentMode = "rag" THEN NewRAGProcessor(apiKey)
                ELSE NewRAGYoloProcessor(apiKey)
       IN  \E m \in findSimilarCommand(last.input) :
             \E out \in (IF m.found
                          THEN RAGMatched(p, last.input, m.cmd)
                          ELSE AIProcess([client |-> p.client, yolo |-> p.yolo],
                                         last.input, << >>)) :
               last' = Retrieved("retrieved", last.input, m, out)
    /\ pc' = "done"
    /\ UNCHANGED <<frontend, apiKey, currentMode, commandHistory, history, scanned,
                   stdin, reader>>

RetrieveNext == Retrieve

SpecRetrieve == RetrieveInit /\ [][RetrieveNext]_vars

(***************************************************************************)
(* getRAGCommandRisk on its own: one call on one command.                  *)
(***************************************************************************)
\* The commands: every template of the knowledge base, and commands that
\* start with, contain, or nearly start with the prefixes the function tests.
Commands ==
    {kb[i][2] : i \in DOMAIN kb}
      \cup { "", "rm -rf /", "rm -rf", "rm -rfoo", "rm -r build", "rm file", "sudo rm -rf /",
             "ls", "lsof -i", "ls; rm -rf /", "find . -delete", "grep -r x . > out",
             "df", "ps", "psql -c 'drop table t'", "uname", "git status",
             "git status; git push", "git stash", "chmod 777 /", "chown root f",
             "mv a b", "cp a b", "mkdir d", "echo ls", " ls",
             "mvn package", "cpio -i", "git pu", "chmo 644 f", "Chmod 644 f",
             "git push origin main", "mkdi d", "echo chown" }

RiskInit ==
    /\ stdin = NoStdin
    /\ reader = << >>
    /\ frontend = "interactive"
    /\ apiKey = ""
    /\ currentMode = "rag"
    /\ commandHistory = << >>
    /\ history = << >>
    /\ scanned = 0
    /\ pc = "command"
    /\ last \in {[step |-> "command", cmd |-> c, risk |-> 0, doesRead |-> FALSE,
                  doesWrite |-> FALSE] : c \in Commands}

\* riskScore, doesRead, doesWrite := getRAGCommandRisk(shellCmd)
Classify ==
    /\ pc = "command"
    /\ LET r == getRAGCommandRisk(last.cmd)
       IN  last' = [step |-> "risk", cmd |-> last.cmd, risk |-> r.risk,
                    doesRead |-> r.doesRead, doesWrite |-> r.doesWrite]
    /\ pc' = "classified"
    /\ UNCHANGED <<frontend, apiKey, currentMode, commandHistory, history, scanned, stdin, reader>>

RiskNext == Classify

SpecRisk == RiskInit /\ [][RiskNext]_vars

(***************************************************************************)
(* The readers of the standard input.  main reads its lines through one    *)
(* bufio.Reader; each confirmation prompt reads its answer through a new    *)
(* bufio.Reader on the same descriptor.                                    *)
(***************************************************************************)
\* Sequences over S of length 1..n.
SeqsUpTo(S, n) == UNION { [1..k -> S] : k \in 1..n }

\* One read(2) on the descriptor with `pos` lines taken: a terminal hands
\* over one line, a pipe or another device whatever is there, up to all of it.
Chunks(pos) ==
    IF stdin.tty THEN {1} ELSE 1..(Len(stdin.lines) - pos)

\* bufio.Reader.ReadString('\n') on a reader that holds the lines `buf` (by
\* their position on stdin): the first buffered line, or else one read(2)
\* fills the buffer; io.EOF when the descriptor has nothing left.
ReadString(buf, pos) ==
    IF buf # << >>
    THEN {[eof |-> FALSE, at |-> Head(buf), buf |-> Tail(buf), pos |-> pos]}
    ELSE IF pos = Len(stdin.lines)
    THEN {[eof |-> TRUE, at |-> 0, buf |-> << >>, pos |-> pos]}
    ELSE {[eof |-> FALSE, at |-> pos + 1, buf |-> [i \in 1..(k - 1) |-> pos + 1 + i],
           pos |-> pos + k] : k \in Chunks(pos)}

\* The answers of the external model and of the shell this specification
\* draws: a complete response of score 0 or 9, and a command that succeeds.
Plain(out) ==
    /\ ~out.panic /\ out.err.nil
    /\ \A i \in DOMAIN out.events :
         out.events[i].type = "CombinedOutput" => out.events[i].data[2] = "nil"
    /\ (out.cand.some /\ out.cand.source = "ai")
       => (out.cand.riskScore \in {0, 9} /\ Len(out.cand.Cmd) > 0 /\ out.cand.doesWrite)

\* The processor's ReadString at a confirmation prompt, if it made one.
Asked(out) == {i \in DOMAIN out.events : out.events[i].type = "ReadString"}

\* One line handled by a processor whose confirmation, if any, is read
\* through bufio.NewReader(os.Stdin) with `pos` lines already taken: the
\* outcome, the position of stdin afterwards, the line that was the answer
\* and the lines that the dropped reader had read beyond it.
Confirming(mode, input, hist, pos) ==
    UNION { IF Asked(out) = {}
            THEN {[out |-> out, pos |-> pos, answerAt |-> 0, lost |-> {}]}
            ELSE { [out |-> out, pos |-> c.pos, answerAt |-> c.at,
                    lost |-> {c.buf[i] : i \in DOMAIN c.buf}]
                   : c \in { r \in ReadString(<< >>, pos) :
                              \A i \in Asked(out) :
                                out.events[i].data
                                  = <<IF r.eof THEN "" ELSE stdin.lines[r.at]>> } }
            : out \in {o \in Process(mode, input, hist) : Plain(o)} }

\* The record of a handled line, with its position on stdin (or in the
\* script), the position of the line read as the answer (0: none, or end of
\* input) and the positions of the lines no reader will return.
Consumed(step, input, mode, hist, c, at) ==
    Handled(step, input, mode, hist, c.out, Report(c.out))
      @@ [at |-> at, answerAt |-> c.answerAt, lost |-> c.lost]

InputInit ==
    /\ frontend \in {"script", "interactive"}
    /\ apiKey = "sk-test"
    /\ currentMode \in {"rag", "rag-yolo"}
    /\ commandHistory = << >>
    /\ history = << >>
    /\ scanned = 0
    /\ pc = IF frontend = "script" THEN "loop" ELSE "running"
    /\ stdin \in [lines : SeqsUpTo(InputLines, MaxInput), pos : {0}, tty : BOOLEAN]
    /\ reader = << >>
    /\ last = Handled("start", "", currentMode, << >>, Nothing, << >>)
                @@ [at |-> 0, answerAt |-> 0, lost |-> {}]

\* main, interactive loop: a line read through main's reader is dispatched;
\* the processor reads the answer to its prompt through a reader of its own.
InputLine ==
    /\ frontend = "interactive" /\ pc = "running"
    /\ \E r \in ReadString(reader, stdin.pos) :
         /\ ~r.eof
         /\ LET input == TrimSpace(stdin.lines[r.at])
            IN  \E c \in Confirming(currentMode, input, commandHistory, r.pos) :
                  /\ last' = Consumed("dispatch", input, currentMode, commandHistory, c, r.at)
                  /\ stdin' = [stdin EXCEPT !.pos = c.pos]
                  /\ reader' = r.buf
                  /\ commandHistory' = Append(commandHistory, input)
    /\ UNCHANGED <<frontend, apiKey, currentMode, history, scanned, pc>>

\* main, interactive loop: io.EOF at the prompt.
InputEOF ==
    /\ frontend = "interactive" /\ pc = "running"
    /\ \E r \in ReadString(reader, stdin.pos) : r.eof
    /\ pc' = "exited"
    /\ last' = Handled("eof", "", currentMode, << >>, Nothing,
                       <<Event("Println", <<"\nGoodbye!">>)>>)
                 @@ [at |-> 0, answerAt |-> 0, lost |-> {}]
    /\ UNCHANGED <<frontend, apiKey, currentMode, commandHistory, history, scanned,
                   stdin, reader>>

\* processScriptFile, one turn of the loop: the line comes from the file,
\* the answer to a prompt from the standard input.
ScriptConfirmedLine ==
    /\ frontend = "script" /\ pc = "loop" /\ scanned < MaxInput
    /\ \E line \in ScriptCommands :
         \E c \in Confirming("ai", line, history, stdin.pos) :
           /\ last' = Consumed("dispatch", line, "ai", history, c, scanned + 1)
           /\ stdin' = [stdin EXCEPT !.pos = c.pos]
           /\ history' = Append(history, line)
    /\ scanned' = scanned + 1
    /\ UNCHANGED <<frontend, apiKey, currentMode, commandHistory, pc, reader>>

InputNext == InputLine \/ InputEOF \/ ScriptConfirmedLine

SpecInput == InputInit /\ [][InputNext]_vars

(***************************************************************************)
(* Progress.  Handling a line is a sequence of steps: the external call,   *)
(* the prints, the read of the reply, the command.  Each front-end takes a *)
(* line at the head of its loop, the processor goes through its steps one  *)
(* at a time, and control returns to the head of the loop.                 *)
(***************************************************************************)
\* The lines the input can hold, as ReadString('\n') returns them.
LiveLines == { "exit\n", "\n", "# a comment\n", "list files\n", "remove directory\n" }

\* scanner.Text(): the line without its end-of-line.
Text(raw) == SubSeq(raw, 1, Len(raw) - 1)

\* The head of the loop of the front-end.
AtLoop == pc = (IF frontend = "script" THEN "loop" ELSE "running")

\* A line on its way through a processor: `done` of its steps have completed.
Taken(input, mode, hist, out) ==
    Handled("dispatch", input, mode, hist, out, Report(out)) @@ [done |-> 0]

\* A turn of the loop that calls no processor.
Turn(step, input) ==
    Handled(step, input, currentMode, << >>, Nothing, << >>) @@ [done |-> 0]

LiveInit ==
    /\ stdin = NoStdin
    /\ reader = << >>
    /\ frontend \in {"script", "piped", "interactive"}
    /\ apiKey = "sk-test"
    /\ currentMode \in (IF frontend = "interactive" THEN {"ai", "rag"} ELSE {"direct"})
    /\ commandHistory = (IF frontend = "interactive" THEN <<"mode " \o currentMode>> ELSE << >>)
    /\ history = << >>
    /\ scanned = 0
    /\ AtLoop
    /\ last = Turn("start", "")

\* main, interactive loop: a line is read at the prompt; exit leaves the
\* loop, an empty line starts the next turn, any other line of LiveLines
\* enters the processor of the current mode.
TakeLine ==
    /\ frontend = "interactive" /\ AtLoop /\ scanned < MaxLines
    /\ scanned' = scanned + 1
    /\ \E raw \in LiveLines :
         LET input == TrimSpace(raw)
         IN  IF input = ""
             THEN /\ last' = Turn("empty", input)
                  /\ UNCHANGED <<commandHistory, pc>>
             ELSE /\ commandHistory' = Append(commandHistory, input)
                  /\ IF input = "exit"
                     THEN /\ pc' = "exited"
                          /\ last' = Turn("exit", input)
                     ELSE /\ pc' = "handling"
                          /\ \E out \in Process(currentMode, input, commandHistory) :
                               last' = Taken(input, currentMode, commandHistory, out)
    /\ UNCHANGED <<frontend, apiKey, currentMode, history, stdin, reader>>

\* processScriptFile: a line of the file after the first is skipped or
\* enters the generative processor.
TakeScriptLine ==
    /\ frontend = "script" /\ AtLoop /\ scanned < MaxLines
    /\ scanned' = scanned + 1
    /\ \E raw \in LiveLines :
         LET line == TrimSpace(Text(raw))
         IN  IF line = "" \/ HasPrefix(line, "#")
             THEN /\ last' = Turn("skip", line)
                  /\ UNCHANGED <<history, pc>>
             ELSE /\ history' = Append(history, line)
                  /\ pc' = "handling"
                  /\ \E out \in Process("ai", line, history) :
                       last' = Taken(line, "ai", history, out)
    /\ UNCHANGED <<frontend, apiKey, currentMode, commandHistory, stdin, reader>>

\* main, piped input: a line of the pipe enters the processor of the
\* current mode as it is.
TakePipedLine ==
    /\ frontend = "piped" /\ AtLoop /\ scanned < MaxLines
    /\ scanned' = scanned + 1
    /\ \E raw \in LiveLines :
         LET command == Text(raw)
         IN  \E out \in Process(currentMode, command, commandHistory) :
               last' = Taken(command, currentMode, commandHistory, out)
    /\ pc' = "handling"
    /\ UNCHANGED <<frontend, apiKey, currentMode, commandHistory, history, stdin, reader>>

\* The next step of the processor completes: the external call returns, a
\* text is printed, the reply is read, the command exits.
Proceed ==
    /\ pc = "handling" /\ last.done < Len(last.events)
    /\ last' = [last EXCEPT !.done = @ + 1]
    /\ UNCHANGED <<frontend, apiKey, currentMode, commandHistory, history, scanned, pc,
                   stdin, reader>>

\* Process returns to the loop, or a run-time panic ends the process.
Return ==
    /\ pc = "handling" /\ last.done = Len(last.events)
    /\ pc' = IF last.panic THEN "crashed"
             ELSE IF frontend = "script" THEN "loop" ELSE "running"
    /\ commandHistory' = IF frontend = "piped" /\ ~last.panic
                          THEN Append(commandHistory, last.input)
                          ELSE commandHistory
    /\ UNCHANGED <<frontend, apiKey, currentMode, history, scanned, last, stdin, reader>>

\* The input is at its end: io.EOF at the prompt, Scan() returns false.
EndOfInput ==
    /\ AtLoop
    /\ pc' = "exited"
    /\ last' = Turn("eof", "")
    /\ UNCHANGED <<frontend, apiKey, currentMode, commandHistory, history, scanned,
                   stdin, reader>>

LiveNext ==
    TakeLine \/ TakeScriptLine \/ TakePipedLine \/ Proceed \/ Return \/ EndOfInput

\* The program's own steps are taken, every external call returns, every
\* prompt is answered, every command exits, and the input has an end.
SpecLive ==
    /\ LiveInit /\ [][LiveNext]_vars
    /\ WF_vars(Proceed) /\ WF_vars(Return)
    /\ WF_vars(TakeLine \/ TakeScriptLine \/ TakePipedLine \/ EndOfInput)

(***************************************************************************)
(* Properties, stated on what handling the latest line did.                *)
(***************************************************************************)
OfType(type) == {i \in DOMAIN last.events : last.events[i].type = type}

HasChunk(e, chunk) == \E k \in DOMAIN e.data : e.data[k] = chunk

ConfirmPrompts ==
    { i \in OfType("Print") :
        HasChunk(last.events[i], "Do you want to execute this command? (y/n): ") }

IsYes(reply) == TrimSpace(reply) \in {"y", "Y"}

YoloMode(mode) == mode \in {"ai-yolo", "rag-yolo"}

ValidModeNames == {"direct", "ai", "rag", "ai-yolo", "rag-yolo"}

Dispatched == last.step = "dispatch"

\* C1: in the non-Yolo Retrieval and Generative modes (the Retrieval
\* no-match fallthrough included) a candidate of risk score >= 7 reaches
\* sh -c only after a confirmation prompt showing that candidate's command
\* was printed and the reply read at it was "y".
C1_HighRiskRunsOnlyAfterApproval ==
    (Dispatched /\ last.mode \in {"ai", "rag"} /\ last.cand.some /\ last.cand.riskScore >= 7)
    => \A i \in OfType("exec") :
         /\ last.events[i].data = <<"sh", "-c", last.cand.command>>
         /\ \E j \in ConfirmPrompts :
              /\ j + 1 < i
              /\ HasChunk(last.events[j], last.cand.command)
              /\ last.events[j + 1].type = "ReadString"
              /\ IsYes(last.events[j + 1].data[1])

\* A Retrieval no-match whose generative candidate of score >= 7 was run.
C1_Witness ==
    /\ Dispatched /\ last.mode = "rag" /\ last.cand.source = "ai"
    /\ last.cand.riskScore >= 7 /\ OfType("exec") # {}

\* C2: whenever a candidate reaches the gate, a confirmation prompt is
\* issued if and only if its score is >= 7 and the mode is not a Yolo
\* flavour; so Yolo never prompts and scores below 7 never prompt.
C2_GateBlocksIffHighRiskAndNotYolo ==
    (Dispatched /\ last.cand.some)
    => ((ConfirmPrompts # {}) <=> (last.cand.riskScore >= 7 /\ ~YoloMode(last.mode)))

\* "remove directory" in RetrievalYolo: score 9, no prompt, executed.
C2_Witness ==
    /\ Dispatched /\ last.mode = "rag-yolo" /\ last.cand.source = "rag"
    /\ last.cand.riskScore = 9 /\ ConfirmPrompts = {} /\ OfType("exec") # {}

\* C3: at a confirmation prompt only the reply "y" (either case, the line
\* trimmed) proceeds to the shell; every other reply returns "Command
\* execution cancelled by user." with a nil error and nothing is executed.
C3_OnlyYesProceeds ==
    \A j \in ConfirmPrompts :
      /\ j + 1 \in OfType("ReadString")
      /\ IF IsYes(last.events[j + 1].data[1])
         THEN OfType("exec") # {}
         ELSE /\ last.output = <<"Command execution cancelled by user.">>
              /\ last.err.nil /\ ~last.panic
              /\ OfType("exec") = {}

\* The reply "yes" at a prompt: cancelled.
C3_Witness ==
    \E j \in ConfirmPrompts :
      /\ last.events[j + 1].data = <<"yes\n">>
      /\ last.output = <<"Command execution cancelled by user.">>

\* C4: in Direct mode a dispatched line goes as it is to sh -c, and the
\* risk classifier, the confirmation prompt and the external model are
\* not used, whatever the line says.
C4_DirectBypassesGate ==
    (Dispatched /\ last.mode = "direct")
    => /\ last.events[1] = Event("exec", <<"sh", "-c", last.input>>)
       /\ Cardinality(OfType("exec")) = 1
       /\ OfType("getRAGCommandRisk") = {}
       /\ OfType("CreateChatCompletion") = {}
       /\ OfType("Print") = {}
       /\ OfType("ReadString") = {}
       /\ ~last.cand.some

\* "remove directory" typed in Direct mode and run by the shell.
C4_Witness ==
    /\ Dispatched /\ last.mode = "direct" /\ frontend = "interactive"
    /\ last.input = "remove directory" /\ OfType("exec") # {}

\* C5: a generative candidate with an empty command array makes the line
\* fail with an error and never reaches the host command interpreter.
C5_EmptyCommandFails ==
    (Dispatched /\ last.cand.some /\ last.cand.source = "ai" /\ Len(last.cand.Cmd) = 0)
    => (~last.err.nil /\ OfType("exec") = {})

\* C6: whatever the external service returned, whatever was replied at the
\* prompt and however the command exited, the interactive session is still
\* running after a dispatched line.
C6_NoOutcomeEndsSession ==
    (frontend = "interactive" /\ Dispatched) => pc = "running"

\* The document does not decode into AIResponse.
Malformed(doc) == ~doc.syntax \/ ("cmd" \in doc.keys /\ ~doc.cmdIsArray)

\* The external call returned a function call with arguments.
GotArguments ==
    /\ last.resp.err = "nil" /\ Len(last.resp.Choices) > 0
    /\ ~last.resp.Choices[1].FunctionCall.nil

C8_FailedCommandOutputShown ==
    \A i \in OfType("CombinedOutput") :
      last.events[i].data[2] # "nil"
      => \E k \in OfType("Println") \cup OfType("Stderr") :
           /\ k > i
           /\ last.events[i].data[1] = "" \/ HasChunk(last.events[k], last.events[i].data[1])
           /\ HasChunk(last.events[k], last.events[i].data[2])

\* C9: with OPENAI_API_KEY missing, a Generative dispatch and a Retrieval
\* no-match return the fixed message, make no external call, and the
\* session continues.
C9_MissingKeyMeansNoCall ==
    (apiKey = "" /\ Dispatched /\ last.mode # "direct" /\ OfType("getRAGCommandRisk") = {})
    => /\ OfType("CreateChatCompletion") = {}
       /\ last.err.nil
       /\ last.output \in
            { <<"[AI] API key not set. Please set OPENAI_API_KEY environment variable.">>,
              <<"[RAG] No matching command found and AI fallback not available.">> }
       /\ pc \notin {"crashed", "exited"}

\* The name a mode line asks for, when the line (or the reply at the
\* selection prompt) was read: "" when it names none.
Requested ==
    LET parts == Fields(last.input)
    IN  IF Len(parts) = 2 THEN parts[2]
        ELSE IF /\ Len(parts) = 1 /\ OfType("ReadString") # {}
                /\ \A i \in OfType("Stderr") : ~HasChunk(last.events[i], "Error reading mode:")
        THEN TrimSpace(last.events[CHOOSE i \in OfType("ReadString") : TRUE].data[1])
        ELSE ""

\* C10: the current mode is always one of the five valid names, it is
\* direct at the start, and a mode line naming a valid mode leaves the
\* current mode equal to that name.
C10_ModeIsValid ==
    /\ currentMode \in ValidModeNames
    /\ last.step = "start" => currentMode = "direct"
    /\ (last.step = "mode" /\ Requested \in ValidModeNames) => currentMode = Requested

\* "mode", then " rag-yolo " at the selection prompt.
C10_Witness ==
    /\ last.step = "mode" /\ Fields(last.input) = <<"mode">>
    /\ Requested = "rag-yolo" /\ currentMode = "rag-yolo" /\ last.mode = "direct"

\* The mode line gave a name: as its one argument, or as the reply that was
\* read at the selection prompt.
Named ==
    \/ Len(Fields(last.input)) = 2
    \/ /\ Len(Fields(last.input)) = 1 /\ OfType("ReadString") # {}
       /\ \A i \in OfType("Stderr") : ~HasChunk(last.events[i], "Error reading mode:")

\* C11: a mode line whose name is not one of the five valid names, a mode
\* line with more than one argument and a failed read at the selection
\* prompt leave the current mode as it was; a name that is not valid is
\* reported as "Invalid mode: <name>".
C11_BadModeLineKeepsMode ==
    (last.step = "mode" /\ (~Named \/ Requested \notin ValidModeNames))
    => /\ currentMode = last.mode
       /\ Named => \E i \in OfType("Println") :
                     /\ HasChunk(last.events[i], "Invalid mode: ")
                     /\ HasChunk(last.events[i], Requested)

\* In mode ai, "mode bogus": still ai, and the name was reported.
C11_Witness ==
    /\ last.step = "mode" /\ last.mode = "ai" /\ Requested = "bogus"
    /\ currentMode = "ai"
    /\ \E i \in OfType("Println") : HasChunk(last.events[i], "Invalid mode: ")

\* C12: a line whose first whitespace-separated token is not exactly "mode"
\* leaves the mode as it was, and at the interactive prompt such a line, when
\* it is no other built-in, is dispatched to the processor of the mode.
C12_OnlyModeLinesSwitch ==
    [][ LET parts == Fields(last'.input)
        IN  (Len(parts) = 0 \/ parts[1] # "mode")
            => /\ currentMode' = currentMode
               /\ ( /\ frontend = "interactive"
                    /\ last'.step \notin {"eof", "readerr", "empty"}
                    /\ last'.input \notin {"exit", "help", "history", "context"} )
                  => last'.step = "dispatch" ]_vars

\* The line is one of the built-ins exit, help, history, context, mode.
BuiltIn(line) ==
    \/ line \in {"exit", "help", "history", "context"}
    \/ Len(Fields(line)) > 0 /\ Fields(line)[1] = "mode"

\* C13: in every front-end a built-in line is handled locally: it is not
\* dispatched to a processor, no external call is made for it and nothing
\* is executed for it.
C13_BuiltInsStayLocal ==
    (last.step # "start" /\ BuiltIn(last.input))
    => /\ ~Dispatched
       /\ OfType("exec") = {}
       /\ OfType("CreateChatCompletion") = {}

\* The first thing the processor chain of a mode does with a line.
ChainStarts(mode) ==
    CASE mode = "direct" -> {"exec"}
      [] mode \in {"ai", "ai-yolo"} -> {"CreateChatCompletion"}
      [] mode \in {"rag", "rag-yolo"} -> {"getRAGCommandRisk", "CreateChatCompletion"}

IsPrefix(a, b) == Len(a) <= Len(b) /\ SubSeq(b, 1, Len(a)) = a

\* C15: the History of the session or script only grows at its end, and
\* every non-empty line that is handled as a command or a built-in is
\* appended to it once, whatever its processing returned.
C15_HistoryAppendOnly ==
    [][ LET old == IF frontend = "script" THEN history ELSE commandHistory
            new == IF frontend = "script" THEN history' ELSE commandHistory'
        IN  /\ IsPrefix(old, new)
            /\ ( /\ last'.step \in {"dispatch", "exit", "help", "mode", "history", "context"}
                 /\ last'.input # "" /\ ~last'.panic )
               => new = Append(old, last'.input) ]_vars

\* C16: the history handed to the processor at a dispatch is the sequence of
\* the lines dispatched before it, without the current line: empty at the
\* first dispatch, and at a dispatch that follows another one the history
\* of that one extended by its line.
C16_HistoryHandedIsEarlierLines ==
    [][ last'.step = "dispatch"
        => /\ last.step = "start" => last'.history = << >>
           /\ (last.step = "dispatch" /\ ~last.panic)
              => last'.history = Append(last.history, last.input) ]_vars

\* Some word of the query is contained, letter case ignored, in the intent
\* phrase of entry i.
WordIn(query, i) ==
    \E k \in DOMAIN Fields(ToLower(query)) :
      Contains(ToLower(kb[i][1]), Fields(ToLower(query))[k])

\* The submitted lines of which some word is contained in some intent phrase.
Matchable == { q \in Submitted : \E i \in DOMAIN kb : WordIn(q, i) }

SameFlavour(mode) ==
    IF YoloMode(mode) THEN NewAIYoloProcessor(apiKey) ELSE NewAIProcessor(apiKey)

\* C18: a line that the retrieval processor did not match is handled as the
\* generative processor of the same flavour handles the same line with the
\* same history, the same external response and the same reply: the same
\* prompt or none, the same command executed, the same result.
C18_FallthroughGatedAsGenerative ==
    (Dispatched /\ last.mode \in {"rag", "rag-yolo"} /\ OfType("getRAGCommandRisk") = {})
    => \E o \in AIProcess(SameFlavour(last.mode), last.input, last.history) :
         /\ o.resp = last.resp /\ o.cand = last.cand
         /\ o.output = last.output /\ o.err = last.err /\ o.panic = last.panic
         /\ o.events \o Report(o) = last.events

\* A no-match in rag-yolo: the candidate of score 9 runs without a prompt.
C18_Witness ==
    /\ Dispatched /\ last.mode = "rag-yolo" /\ last.cand.source = "ai"
    /\ last.cand.riskScore = 9 /\ ConfirmPrompts = {}
    /\ \E i \in OfType("exec") : last.events[i].data = <<"sh", "-c", last.cand.command>>

\* The number of words of the query that the intent phrase of entry i
\* contains, letter case ignored.
Count(query, i) ==
    Cardinality({ k \in DOMAIN Fields(ToLower(query)) :
                    Contains(ToLower(kb[i][1]), Fields(ToLower(query))[k]) })

\* C19: findSimilarCommand returns found=true exactly when some entry has a
\* count above zero for the query, the template it then returns is that of
\* an entry whose count is the largest of all entries, and when every count
\* is zero it returns found=false and no template.
C19_BestCountWins ==
    last.step = "match"
    => /\ last.found <=> \E i \in DOMAIN kb : Count(last.input, i) > 0
       /\ last.found
          => \E i \in DOMAIN kb :
               /\ kb[i][2] = last.cmd
               /\ \A j \in DOMAIN kb : Count(last.input, j) <= Count(last.input, i)
       /\ ~last.found => last.cmd = ""

\* "remove the build directory": of the entries that contain a word of it
\* ("build docker image", "go build", "create directory", ...) the one with
\* two words, "remove directory", is returned.
C19_Witness ==
    /\ last.step = "match" /\ last.input = "remove the build directory"
    /\ last.found /\ last.cmd = "rm -rf"

\* C20: an intent phrase of the knowledge base given as it is written gets
\* the template of its own entry, in whatever order the map is ranged over.
C20_VerbatimPhraseSelectsOwnEntry ==
    last.step = "match"
    => \A i \in DOMAIN kb : last.input = kb[i][1] => last.cmd = kb[i][2]

\* C21: a command that begins with "rm -rf" is scored 9 or more and as
\* writing; a command that begins with ls, find, grep, df, ps, uname or
\* git status is scored 1 or less and as not writing.
C21_PrefixDecidesRisk ==
    last.step = "risk"
    => /\ HasPrefix(last.cmd, "rm -rf") => (last.risk >= 9 /\ last.doesWrite)
       /\ (\E prefix \in {"ls", "find", "grep", "df", "ps", "uname", "git status"} :
             HasPrefix(last.cmd, prefix))
          => (last.risk <= 1 /\ ~last.doesWrite)

\* The template "rm -rf" itself: score 9, writes.
C21_Witness ==
    /\ last.step = "risk" /\ last.cmd = "rm -rf"
    /\ last.risk = 9 /\ last.doesWrite

\* The risk score the external model reported in its arguments (0 when the
\* document has no risk_score).
Reported ==
    LET doc == last.resp.Choices[1].FunctionCall.Arguments
    IN  IF "risk_score" \in doc.keys THEN doc.risk_score ELSE 0

\* C22: the classifier is run only for a command the matcher found; for a
\* candidate parsed from the external model's response the score of the
\* candidate, the decision to prompt and the risk that is displayed are
\* those of the reported score, whatever the text of the command.
C22_GenerativeRiskIsSelfReported ==
    /\ (Dispatched /\ OfType("getRAGCommandRisk") # {}) => last.cand.source = "rag"
    /\ (Dispatched /\ last.cand.some /\ last.cand.source = "ai")
       => /\ OfType("getRAGCommandRisk") = {}
          /\ GotArguments
          /\ last.cand.riskScore = Reported
          /\ (ConfirmPrompts # {}) <=> (Reported >= 7 /\ ~YoloMode(last.mode))
          /\ \E i \in OfType("Print") \cup OfType("Println") :
               HasChunk(last.events[i], "Risk: " \o ToString(Reported) \o "/10")

\* "rm -rf build dir" reported with score 0 in mode ai: run without a prompt.
C22_Witness ==
    /\ Dispatched /\ last.mode = "ai" /\ last.cand.source = "ai"
    /\ HasPrefix(last.cand.command, "rm -rf") /\ last.cand.riskScore = 0
    /\ ConfirmPrompts = {} /\ OfType("exec") # {}

\* C23: every candidate that reaches the gate has a risk score in 0..10.
C23_RiskScoreInRange ==
    (Dispatched /\ last.cand.some) => last.cand.riskScore \in 0..10

C25_GenerativeRunsArgv ==
    (Dispatched /\ last.cand.some /\ last.cand.source = "ai" /\ Len(last.cand.Cmd) > 0)
    => \A i \in OfType("exec") : last.events[i].data = last.cand.Cmd

\* C26: of a script file no empty line and no line that begins with # is
\* dispatched to a processor (a leading shebang line included).
C26_ScriptSkipsCommentsAndBlanks ==
    (frontend = "script" /\ Dispatched)
    => (TrimSpace(last.input) # "" /\ ~HasPrefix(TrimSpace(last.input), "#"))

\* C27: a line of piped input is dispatched as script execution dispatches
\* it: to the generative processor, and, after the first line, trimmed and
\* only when it is neither empty nor a comment.
C27_PipedAsScript ==
    (frontend = "piped" /\ Dispatched)
    => /\ last.mode = "ai"
       /\ last.events[1].type = "CreateChatCompletion"
       /\ scanned > 1
          => /\ last.input = TrimSpace(last.input)
             /\ last.input # "" /\ ~HasPrefix(last.input, "#")

\* C28: in script and piped execution a line whose processing returned an
\* error is reported on the standard error stream, the loop goes on, the
\* next line of the input can be taken, and the run exits only at the end
\* of the input.
C28_ErrorDoesNotAbortRun ==
    /\ (frontend \in {"script", "piped"} /\ Dispatched /\ ~last.err.nil /\ ~last.panic)
       => /\ \E i \in OfType("Stderr") :
               /\ HasChunk(last.events[i], "Error executing command: ")
               /\ \A k \in DOMAIN last.err.msg : HasChunk(last.events[i], last.err.msg[k])
          /\ pc = (IF frontend = "script" THEN "loop" ELSE "running")
          /\ scanned < MaxLines => ENABLED (ScriptLine \/ PipedLine)
    /\ (frontend \in {"script", "piped"} /\ pc = "exited") => last.step = "eof"

\* The first line of a script failed with a transport error; the loop is
\* on, with lines left to read.
C28_Witness ==
    /\ frontend = "script" /\ Dispatched /\ scanned = 1 /\ pc = "loop"
    /\ ~last.err.nil /\ last.resp.err # "nil"
    /\ OfType("Stderr") # {}

\* C29: at the interactive prompt, once an exit line was read or the end of
\* the input was reached, nothing more happens: the loop is left, no line
\* is read, dispatched or executed afterwards; and the exit line itself is
\* handled as the built-in, never by a processor.
C29_ExitAndEofEndTheLoop ==
    [][ frontend = "interactive"
        => /\ last.step \in {"exit", "eof"} => FALSE
           /\ last'.step \in {"exit", "eof"}
              => /\ pc' = "exited"
                 /\ \A i \in DOMAIN last'.events :
                      last'.events[i].type \notin {"exec", "CreateChatCompletion", "getRAGCommandRisk"}
           /\ last'.input = "exit" => last'.step = "exit" ]_vars

\* "exit" typed in mode ai: the loop is left.
C29_Witness ==
    /\ frontend = "interactive" /\ last.step = "exit" /\ last.mode = "ai"
    /\ pc = "exited" /\ commandHistory = <<"mode ai", "exit">>

\* C30: the lines of the standard input are used one after the other: the
\* answer read at a confirmation prompt is the line that follows the line
\* that caused the prompt (the next unread line, for a script), and no line
\* is read off the input without being returned to the program.
C30_InputUsedInOrder ==
    last.step = "dispatch"
    => /\ last.lost = {}
       /\ (frontend = "interactive" /\ ConfirmPrompts # {})
          => last.answerAt = (IF last.at < Len(stdin.lines) THEN last.at + 1 ELSE 0)

\* The prefixes getRAGCommandRisk tests.
RiskPrefixes ==
    { "rm -rf", "chmod", "chown", "git push", "git pull", "mv", "cp", "mkdir",
      "ls", "find", "grep", "df", "ps", "uname", "git status" }

\* cmd begins with one of the prefixes.
Begins(cmd, prefixes) == \E prefix \in prefixes : HasPrefix(cmd, prefix)

\* C31: a command that begins with chmod or chown is scored 7 and as
\* writing; with git push, git pull, cp or mv 5 and as writing; with mkdir 4
\* and as writing; a command that begins with none of the tested prefixes is
\* scored 3, as reading and as not writing.
C31_PolicyTable ==
    last.step = "risk"
    => /\ Begins(last.cmd, {"chmod", "chown"}) => (last.risk = 7 /\ last.doesWrite)
       /\ Begins(last.cmd, {"git push", "git pull", "cp", "mv"})
          => (last.risk = 5 /\ last.doesWrite)
       /\ Begins(last.cmd, {"mkdir"}) => (last.risk = 4 /\ last.doesWrite)
       /\ ~Begins(last.cmd, RiskPrefixes)
          => (last.risk = 3 /\ last.doesRead /\ ~last.doesWrite)

\* The template "mkdir -p" is scored 4 and as writing, "docker ps" 3.
C31_Witness ==
    /\ last.step = "risk" /\ last.cmd = "mkdir -p"
    /\ last.risk = 4 /\ last.doesWrite

\* The rule blocks of getRAGCommandRisk of which a rule matches cmd.
Fires(cmd) ==
    {b \in {"high", "medium", "low"} :
       CASE b = "high" -> HighRisk(cmd, DefaultRisk) # DefaultRisk
         [] b = "medium" -> MediumRisk(cmd, DefaultRisk) # DefaultRisk
         [] b = "low" -> LowRisk(cmd, DefaultRisk) # DefaultRisk}

\* The results of the three rule blocks applied in every order.
AnyOrder(cmd) ==
    { HighRisk(cmd, MediumRisk(cmd, LowRisk(cmd, DefaultRisk))),
      HighRisk(cmd, LowRisk(cmd, MediumRisk(cmd, DefaultRisk))),
      MediumRisk(cmd, HighRisk(cmd, LowRisk(cmd, DefaultRisk))),
      MediumRisk(cmd, LowRisk(cmd, HighRisk(cmd, DefaultRisk))),
      LowRisk(cmd, HighRisk(cmd, MediumRisk(cmd, DefaultRisk))),
      LowRisk(cmd, MediumRisk(cmd, HighRisk(cmd, DefaultRisk))) }

\* C34: a command matches the rules of at most one block, none of the tested
\* prefixes begins with another, what the high-risk block assigned is what
\* the function returns, and the blocks give the same result in any order.
C34_RulesExclusive ==
    /\ \A p1, p2 \in RiskPrefixes : HasPrefix(p1, p2) => p1 = p2
    /\ last.step = "risk"
       => /\ Cardinality(Fires(last.cmd)) <= 1
          /\ "high" \in Fires(last.cmd)
             => last.risk = HighRisk(last.cmd, DefaultRisk).risk
          /\ AnyOrder(last.cmd)
               = {[risk |-> last.risk, doesRead |-> last.doesRead,
                   doesWrite |-> last.doesWrite]}

\* "chmod 777 /" matches the high-risk block alone and keeps its 7.
C34_Witness ==
    /\ last.step = "risk" /\ last.cmd = "chmod 777 /"
    /\ Fires(last.cmd) = {"high"} /\ last.risk = 7

\* The messages of the request the generative processor sent for the line.
Messages == last.events[CHOOSE i \in OfType("CreateChatCompletion") : TRUE].data

Displayed(j) ==
    LET d == last.events[j].data
        k == CHOOSE k \in DOMAIN d : d[k] \in {"Command: ", "' to command: "}
    IN  d[k + 1]

\* C33: handling one line prints at most one confirmation prompt, reads at
\* most one reply and starts at most one command, and a command started
\* after a prompt is sh -c of exactly the command string that prompt showed.
C33_ApprovedCommandIsTheOneRun ==
    Dispatched
    => /\ Cardinality(ConfirmPrompts) <= 1
       /\ Cardinality(OfType("ReadString")) <= 1
       /\ Cardinality(OfType("exec")) <= 1
       /\ \A j \in ConfirmPrompts : \A i \in OfType("exec") :
            /\ j < i
            /\ last.events[i].data = <<"sh", "-c", Displayed(j)>>

\* A generative candidate shown as "rm -rf build dir", approved and run.
C33_Witness ==
    /\ Dispatched /\ last.mode = "ai"
    /\ \E j \in ConfirmPrompts : \E i \in OfType("exec") :
         /\ Displayed(j) = "rm -rf build dir"
         /\ IsYes(last.events[j + 1].data[1])
         /\ last.events[i].data = <<"sh", "-c", "rm -rf build dir">>

\* The intent phrases of the knowledge base whose template is given.
PhrasesOf(template) == {kb[i][1] : i \in {j \in DOMAIN kb : kb[j][2] = template}}

\* The entries that ask for confirmation in plain Retrieval mode.
Guarded == {"remove directory", "change permissions", "change owner"}

\* C35: of the knowledge base exactly the entries "remove directory",
\* "change permissions" and "change owner" are scored 7 or more; in plain
\* Retrieval mode a match of one of them prints the confirmation prompt
\* and a match of any other entry runs its template without a prompt.
C35_ThreeEntriesAskFirst ==
    /\ \A i \in DOMAIN kb :
         (getRAGCommandRisk(kb[i][2]).risk >= 7) <=> (kb[i][1] \in Guarded)
    /\ (last.step = "retrieved" /\ last.mode = "rag" /\ last.found)
       => /\ (ConfirmPrompts # {}) <=> (PhrasesOf(last.cmd) \cap Guarded # {})
          /\ ConfirmPrompts = {}
             => /\ last.cand.riskScore < 7
                /\ OfType("ReadString") = {}
                /\ \E i \in OfType("exec") : last.events[i].data = <<"sh", "-c", last.cmd>>

\* "kill process on port" matched in plain Retrieval mode: run, no prompt.
C35_Witness ==
    /\ last.step = "retrieved" /\ last.mode = "rag" /\ last.found
    /\ last.input = "kill process on port"
    /\ last.cmd = "lsof -ti tcp:PORT | xargs kill"
    /\ ConfirmPrompts = {} /\ OfType("exec") # {}

\* C36: on a retrieval match every command handed to the shell is sh -c of
\* the template the matcher returned, which is the template of a
\* knowledge-base entry as it is written there.
C36_TemplateRunsVerbatim ==
    (last.step = "retrieved" /\ last.found)
    => /\ PhrasesOf(last.cmd) # {}
       /\ \A i \in OfType("exec") : last.events[i].data = <<"sh", "-c", last.cmd>>

\* "kill process on port 8080" runs the template with PORT still in it.
C36_Witness ==
    /\ last.step = "retrieved" /\ last.found
    /\ last.input = "kill process on port 8080"
    /\ \E i \in OfType("exec") :
         last.events[i].data = <<"sh", "-c", "lsof -ti tcp:PORT | xargs kill">>

\* C37: in the interactive session every step that read a non-empty line at
\* the main prompt appends exactly that trimmed line to the history, for the
\* built-in lines as for the dispatched ones; an empty line, the end of the
\* input and a read error leave the history as it was; the reply read at
\* "Select mode:" is not appended, and neither an empty line nor a mode
\* line reaches a processor or the shell.
C37_HistoryRecordsPromptLines ==
    [][ frontend = "interactive"
        => /\ last'.step \in {"exit", "help", "mode", "history", "context", "dispatch"}
              => /\ last'.input # ""
                 /\ commandHistory' = Append(commandHistory, last'.input)
           /\ last'.step \in {"empty", "eof", "readerr"}
              => commandHistory' = commandHistory
           /\ last'.step \in {"empty", "mode"}
              => \A i \in DOMAIN last'.events :
                   last'.events[i].type \notin {"exec", "CreateChatCompletion",
                                                "getRAGCommandRisk"}
           /\ last'.step = "dispatch" => last'.history = commandHistory ]_vars

\* "mode" answered with "ai" at the "Select mode:" prompt, then "help":
\* the history holds the two lines and not the reply.
C37_Witness ==
    /\ frontend = "interactive" /\ last.step = "help" /\ currentMode = "ai"
    /\ commandHistory = <<"mode", "help">>

\* C38: every line that entered a processor is eventually fully processed,
\* control being back at the head of the loop, and every run ends with the
\* front-end leaving its loop at the end of the input.
C38_EveryLineProcessedAndRunEnds ==
    /\ [](pc = "handling" => <>AtLoop)
    /\ <>(pc = "exited")
====
